---- MODULE Spec2Model ----
(***************************************************************************)
(* Model of the Amoura back end: the checkout transaction                  *)
(* (app/services/order_service.py), the cart operations                    *)
(* (app/services/cart_service.py), the admin product operations            *)
(* (app/services/product_service.py) and the order status state machine.   *)
(*                                                                         *)
(* Committed database state is held in products, cart, orders and          *)
(* order_items.  Every HTTP request runs in a slot of req with its own     *)
(* SQLModel session; what a session has read is kept in the slot, and the  *)
(* writes of a session reach the committed state only in the step that     *)
(* models session.commit().  Money is in integer cents.                    *)
(*                                                                         *)
(* Spec    : requests of several service instances interleave (each        *)
(*           instance has its own engine, the store is PostgreSQL at       *)
(*           read committed).                                              *)
(* SpecSeq : one service instance.  app/database.py creates the engine     *)
(*           with pool_size=1, max_overflow=0 and every request holds the  *)
(*           connection from its first query (get_current_user) to its     *)
(*           commit or close, so the requests run one after another.       *)
(***************************************************************************)
EXTENDS Integers, Sequences, FiniteSets, TLC

\* ---------------------------------------------------------------- bounds
MaxStock == 2
MaxOrders == 2
MaxCartRows == 2

Users == {"u1", "u2"}
Products == {"p1", "p2"}
Slots == {"r1", "r2"}
QuantitiesFromZero == 0..MaxStock
Quantities == 1..MaxStock
Stocks == 0..MaxStock
DateOffsets == {-1, 0}
NowMinutes == {510, 511}
Windows == {"morning", "afternoon", "evening", "custom"}
Statuses == {"pending", "confirmed", "shipped", "canceled"}
OrderIds == 1..(MaxOrders + 1)

\* ------------------------------------------------------- program constants
MIN_LEAD_MINUTES == 30
WINDOW_START_TIMES == [morning |-> 540, afternoon |-> 840, evening |-> 1140]
TAX_RATE_PERCENT == 8

VARIABLES products, cart, nextCartId, orders, order_items, req, last, emails

vars == <<products, cart, nextCartId, orders, order_items, req, last, emails>>
db == <<products, cart, nextCartId, orders, order_items>>

\* ------------------------------------------------------------ row shapes
NoProduct == [exists |-> FALSE, price |-> 0, stock_on_hand |-> 0, is_active |-> FALSE]

NoSnapshot == [p \in Products |-> NoProduct]

IdleReq ==
  [op |-> "none", pc |-> "idle", user_id |-> "none", cart_items |-> {},
   product_map |-> NoSnapshot, product_id |-> "none", quantity |-> 0,
   existing |-> 0, order_id |-> 0, current |-> "none", new |-> "none",
   snapshot_price |-> 0, raced |-> {}, delivery_date |-> 0,
   delivery_window |-> "none", phone_number |-> <<>>, body_phone_number |-> <<>>]

\* The response sent for the request that finished last.  It is kept for the
\* order requests (checkout, update_status); of a product or cart request
\* only that it was answered.
OrderOps == {"checkout", "update_status"}

NoResponse ==
  [op |-> "none", result |-> "none", order_id |-> 0, current |-> "none", new |-> "none",
   errors |-> {}, email |-> "none"]

Response(op, user, result) ==
  IF op \in OrderOps
  THEN [NoResponse EXCEPT !.op = op, !.result = result]
  ELSE [NoResponse EXCEPT !.op = "other"]

\* ---------------------------------------------------------- pure helpers
RECURSIVE SumQty(_, _)
SumQty(lines, p) ==
  IF lines = {} THEN 0
  ELSE LET ci == CHOOSE x \in lines : TRUE
       IN (IF ci.product_id = p THEN ci.quantity ELSE 0) + SumQty(lines \ {ci}, p)

RECURSIVE Subtotal(_)
Subtotal(lines) ==
  IF lines = {} THEN 0
  ELSE LET ci == CHOOSE x \in lines : TRUE
       IN ci.quantity * ci.snapshot_price + Subtotal(lines \ {ci})

TaxTruncated(subtotal) == (subtotal * TAX_RATE_PERCENT) \div 100

\* round(subtotal * TAX_RATE, 2) in cents; 8*s is never an odd multiple of 50,
\* so no tie ever reaches the rounding rule.
TaxAmount(subtotal) == (subtotal * TAX_RATE_PERCENT + 50) \div 100

TotalAmount(subtotal) == subtotal + TaxAmount(subtotal)

\* _build_order_with_items_dto: the view of an order with its lines; the
\* subtotal and the tax are recomputed from the order items.
RECURSIVE ItemsSubtotal(_)
ItemsSubtotal(items) ==
  IF items = {} THEN 0
  ELSE LET it == CHOOSE x \in items : TRUE
       IN it.quantity * it.unit_price + ItemsSubtotal(items \ {it})

LineTotal(it) == it.quantity * it.unit_price

BuildOrderWithItemsDto(order, items) ==
  [id |-> order.id, user_id |-> order.user_id, status |-> order.status,
   total_amount |-> order.total_amount,
   items |-> {[id |-> it.id, product_id |-> it.product_id, quantity |-> it.quantity,
               unit_price |-> it.unit_price, line_total |-> LineTotal(it)] : it \in items},
   subtotal |-> ItemsSubtotal(items),
   tax_amount |-> TaxAmount(ItemsSubtotal(items))]

\* str.strip() on a string kept as its sequence of characters.
RECURSIVE Strip(_)
Strip(v) ==
  IF v = <<>> THEN v
  ELSE IF Head(v) = " " THEN Strip(Tail(v))
  ELSE IF v[Len(v)] = " " THEN Strip(SubSeq(v, 1, Len(v) - 1))
  ELSE v

\* OrderCreate.not_empty: the required contact fields are stripped and a
\* blank one is refused.
NotEmpty(v) == Strip(v)

WindowCheckedOnAnyDate(dateOffset, window, now) ==
  IF dateOffset < 0 THEN "PastDate"
  ELSE IF window \notin DOMAIN WINDOW_START_TIMES THEN "SameDayCustomNotAllowed"
  ELSE IF dateOffset > 0 THEN "ok"
  ELSE IF WINDOW_START_TIMES[window] < now + MIN_LEAD_MINUTES THEN "InsufficientLeadTime"
  ELSE "ok"

ExclusiveLeadTime(dateOffset, window, now) ==
  IF dateOffset < 0 THEN "PastDate"
  ELSE IF dateOffset > 0 THEN "ok"
  ELSE IF window \notin DOMAIN WINDOW_START_TIMES THEN "SameDayCustomNotAllowed"
  ELSE IF WINDOW_START_TIMES[window] <= now + MIN_LEAD_MINUTES THEN "InsufficientLeadTime"
  ELSE "ok"

ValidateDeliveryTiming(dateOffset, window, now) ==
  IF dateOffset < 0 THEN "PastDate"
  ELSE IF dateOffset > 0 THEN "ok"
  ELSE IF window \notin DOMAIN WINDOW_START_TIMES THEN "SameDayCustomNotAllowed"
  ELSE IF WINDOW_START_TIMES[window] < now + MIN_LEAD_MINUTES THEN "InsufficientLeadTime"
  ELSE "ok"

ValidateLineIgnoresActive(ci, product) ==
  IF ~product.exists THEN "ProductNotFound"
  ELSE IF ci.quantity > product.stock_on_hand THEN "InsufficientStock"
  ELSE IF ci.snapshot_price <= 0 THEN "InvalidCartPrice"
  ELSE "ok"

ValidateLinePriceFirst(ci, product) ==
  IF ~product.exists THEN "ProductNotFound"
  ELSE IF ~product.is_active THEN "ProductInactive"
  ELSE IF ci.snapshot_price <= 0 THEN "InvalidCartPrice"
  ELSE IF ci.quantity > product.stock_on_hand THEN "InsufficientStock"
  ELSE "ok"

ValidateLine(ci, product) ==
  IF ~product.exists THEN "ProductNotFound"
  ELSE IF ~product.is_active THEN "ProductInactive"
  ELSE IF ci.quantity > product.stock_on_hand THEN "InsufficientStock"
  ELSE IF ci.snapshot_price <= 0 THEN "InvalidCartPrice"
  ELSE "ok"

FirstCartError(lines, pm) ==
  LET bad == {x \in lines : ValidateLine(x, pm[x.product_id]) # "ok"}
  IN {[line |-> ci.id, product_id |-> ci.product_id,
        reason |-> ValidateLine(ci, pm[ci.product_id])] :
        ci \in {x \in bad : \A y \in bad : x.id <= y.id}}

\* The list `errors` of the validation loop: one entry per appended dict,
\* `line` being the cart row whose iteration appended it (two rows of the
\* same product give two entries).
CartErrors(lines, pm) ==
  {[line |-> ci.id, product_id |-> ci.product_id,
    reason |-> ValidateLine(ci, pm[ci.product_id])] :
     ci \in {x \in lines : ValidateLine(x, pm[x.product_id]) # "ok"}}

ListForUser(u) == {ci \in cart : ci.user_id = u}

GetItem(u, p) ==
  LET rows == {ci \in cart : ci.user_id = u /\ ci.product_id = p}
  IN IF rows = {} THEN 0
     ELSE (CHOOSE ci \in rows : \A other \in rows : ci.id <= other.id).id

CartRow(id) == CHOOSE ci \in cart : ci.id = id

AllowedSkipsConfirm ==
  [pending |-> {"confirmed", "canceled", "shipped"}, confirmed |-> {"shipped", "canceled"},
   shipped |-> {}, canceled |-> {}]

AllowedReopens ==
  [pending |-> {"confirmed", "canceled"}, confirmed |-> {"shipped", "canceled"},
   shipped |-> {}, canceled |-> {"pending"}]

Allowed ==
  [pending |-> {"confirmed", "canceled"}, confirmed |-> {"shipped", "canceled"},
   shipped |-> {}, canceled |-> {}]

InFlight(r) == req[r].pc # "idle"

CanBegin(r) == ~InFlight(r)

\* ----------------------------------------------------------------- Init
Init ==
  /\ products = [p \in Products |-> NoProduct]
  /\ cart = {}
  /\ nextCartId = 1
  /\ orders = <<>>
  /\ order_items = {}
  /\ req = [r \in Slots |-> IdleReq]
  /\ last = NoResponse
  /\ emails = [o \in OrderIds |-> 0]

\* A session that is closed without commit is rolled back: what it flushed
\* (INSERTs of create_order / create_items) and what it changed in memory is
\* discarded and the committed value stays.
RollbackKeeps(committed, inTransaction) == inTransaction

Rollback(committed, inTransaction) == committed

\* ------------------------------------------------- admin: product service
CreateProduct(p, price, stock, active) ==
  /\ ~products[p].exists
  /\ products' = [products EXCEPT ![p] =
        [exists |-> TRUE, price |-> price, stock_on_hand |-> stock, is_active |-> active]]
  /\ last' = Response("create_product", "admin", "ok")
  /\ UNCHANGED <<cart, nextCartId, orders, order_items, req, emails>>

\* Partial update: a payload field is a set, {} for None and {v} for a value;
\* a field that is None is left alone.
Value(field) == CHOOSE v \in field : TRUE

\* Ghost: a request that validated its cart against the old stock of p
\* forgets what other checkouts deducted from p once an admin writes it.
UpdateProduct(p, price, stock, active) ==
  /\ products[p].exists
  /\ products' = [products EXCEPT ![p] =
        [exists |-> TRUE,
         price |-> IF price # {} THEN Value(price) ELSE @.price,
         stock_on_hand |-> IF stock # {} THEN Value(stock) ELSE @.stock_on_hand,
         is_active |-> IF active # {} THEN Value(active) ELSE @.is_active]]
  /\ req' = [s \in Slots |->
        IF req[s].pc = "validated" /\ stock # {}
        THEN [req[s] EXCEPT !.raced = @ \ {p}]
        ELSE req[s]]
  /\ last' = Response("update_product", "admin", "ok")
  /\ UNCHANGED <<cart, nextCartId, orders, order_items, emails>>

\* delete_product: 404 for a missing product; the DELETE of a product that a
\* cart row or an order item references breaks their foreign key (declared
\* without ON DELETE), the commit raises and the product stays.
Referenced(p) ==
  \/ \E ci \in cart : ci.product_id = p
  \/ \E it \in order_items : it.product_id = p

DeleteProduct(p) ==
  /\ products' = IF products[p].exists /\ ~Referenced(p)
                  THEN [products EXCEPT ![p] = NoProduct]
                  ELSE products
  /\ last' = Response("delete_product", "admin",
                       IF ~products[p].exists THEN "ProductNotFound"
                       ELSE IF Referenced(p) THEN "ServerError" ELSE "ok")
  /\ UNCHANGED <<cart, nextCartId, orders, order_items, req, emails>>

AddToCartBeginChecksPayloadOnly(r, u, p, q) ==
  /\ CanBegin(r)
  /\ nextCartId + Cardinality({s \in Slots : req[s].pc = "add_ready" /\ req[s].existing = 0})
       <= MaxCartRows
  /\ LET product == products[p]
         existing == GetItem(u, p)
         new_qty == IF existing = 0 THEN q ELSE CartRow(existing).quantity + q
         outcome == IF ~product.exists THEN "ProductNotFound"
                    ELSE IF ~product.is_active THEN "ProductInactive"
                    ELSE IF q > product.stock_on_hand THEN "NotEnoughStock"
                    ELSE "ok"
     IN IF outcome # "ok"
        THEN /\ last' = Response("add_to_cart", u, outcome)
             /\ req' = req
        ELSE /\ req' = [req EXCEPT ![r] =
                   [IdleReq EXCEPT !.op = "add_to_cart", !.pc = "add_ready", !.user_id = u,
                                   !.product_id = p, !.quantity = new_qty,
                                   !.existing = existing,
                                   !.snapshot_price = product.price]]
             /\ last' = last
  /\ UNCHANGED <<db, emails>>

\* ------------------------------------------------------------ cart service
\* add_to_cart, first half: the reads (product, stock check, existing row).
AddToCartBegin(r, u, p, q) ==
  /\ CanBegin(r)
  /\ nextCartId + Cardinality({s \in Slots : req[s].pc = "add_ready" /\ req[s].existing = 0})
       <= MaxCartRows
  /\ LET product == products[p]
         existing == GetItem(u, p)
         new_qty == IF existing = 0 THEN q ELSE CartRow(existing).quantity + q
         outcome == IF ~product.exists THEN "ProductNotFound"
                    ELSE IF ~product.is_active THEN "ProductInactive"
                    ELSE IF q > product.stock_on_hand THEN "NotEnoughStock"
                    ELSE IF new_qty > product.stock_on_hand THEN "NotEnoughStock"
                    ELSE "ok"
     IN IF outcome # "ok"
        THEN /\ last' = Response("add_to_cart", u, outcome)
             /\ req' = req
        ELSE /\ req' = [req EXCEPT ![r] =
                   [IdleReq EXCEPT !.op = "add_to_cart", !.pc = "add_ready", !.user_id = u,
                                   !.product_id = p, !.quantity = new_qty,
                                   !.existing = existing,
                                   !.snapshot_price = product.price]]
             /\ last' = last
  /\ UNCHANGED <<db, emails>>

RepricedRow(r, ci) ==
  [ci EXCEPT !.quantity = req[r].quantity, !.snapshot_price = req[r].snapshot_price]

\* The existing row after add_to_cart merged the new quantity into it.
MergedRow(r, ci) == [ci EXCEPT !.quantity = req[r].quantity]

\* add_to_cart, second half: cart_repo.update (UPDATE ... WHERE id) or
\* cart_repo.create (INSERT), each followed by commit.  An UPDATE that matches
\* no row makes the ORM raise StaleDataError and nothing is committed.
AddToCartCommit(r) ==
  /\ req[r].pc = "add_ready"
  /\ LET q == req[r].quantity
         p == req[r].product_id
         u == req[r].user_id
         existing == req[r].existing
         present == \E ci \in cart : ci.id = existing
     IN IF existing # 0
        THEN /\ cart' = IF present
                        THEN {IF ci.id = existing THEN MergedRow(r, ci) ELSE ci :
                                ci \in cart}
                        ELSE cart
             /\ nextCartId' = nextCartId
             /\ last' = Response("add_to_cart", u, IF present THEN "ok" ELSE "ServerError")
        ELSE /\ cart' = cart \cup {[id |-> nextCartId, user_id |-> u, product_id |-> p,
                                    quantity |-> q,
                                    snapshot_price |-> req[r].snapshot_price]}
             /\ nextCartId' = nextCartId + 1
             /\ last' = Response("add_to_cart", u, "ok")
  /\ req' = [req EXCEPT ![r] = IdleReq]
  /\ UNCHANGED <<products, orders, order_items, emails>>

UpdateQuantity(r, u, p, q) ==
  /\ CanBegin(r)
  /\ LET product == products[p]
         item == GetItem(u, p)
         outcome == IF ~product.exists THEN "ProductNotFound"
                    ELSE IF ~product.is_active THEN "ProductInactive"
                    ELSE IF item = 0 THEN "ItemNotInCart"
                    ELSE IF q > product.stock_on_hand THEN "NotEnoughStock"
                    ELSE "ok"
     IN /\ cart' = IF outcome = "ok"
                   THEN {IF ci.id = item THEN [ci EXCEPT !.quantity = q] ELSE ci : ci \in cart}
                   ELSE cart
        /\ last' = Response("update_quantity", u, outcome)
  /\ UNCHANGED <<products, nextCartId, orders, order_items, req, emails>>

RemoveItem(r, u, p) ==
  /\ CanBegin(r)
  /\ LET item == GetItem(u, p)
     IN /\ cart' = {ci \in cart : ci.id # item}
        /\ last' = Response("remove_item", u, IF item = 0 THEN "ItemNotInCart" ELSE "ok")
  /\ UNCHANGED <<products, nextCartId, orders, order_items, req, emails>>

ClearCart(r, u) ==
  /\ CanBegin(r)
  /\ cart' = cart \ ListForUser(u)
  /\ last' = Response("clear_cart", u, "ok")
  /\ UNCHANGED <<products, nextCartId, orders, order_items, req, emails>>

\* ---------------------------------------------------------------- checkout
CartNeverEmpty(cart_items) == FALSE

\* if not cart_items: the cart is empty.
CartIsEmpty(cart_items) == cart_items = {}

CheckoutBeginCartFirst(r, u, dateOffset, window, now, phone) ==
  /\ CanBegin(r)
  /\ NotEmpty(phone) # <<>>
  /\ Len(orders) + Cardinality({s \in Slots : req[s].op = "checkout"}) < MaxOrders
  /\ LET timing == ValidateDeliveryTiming(dateOffset, window, now)
         cart_items == ListForUser(u)
     IN IF CartIsEmpty(cart_items)
        THEN /\ last' = Response("checkout", u, "EmptyCart")
             /\ req' = req
        ELSE IF timing # "ok"
        THEN /\ last' = Response("checkout", u, timing)
             /\ req' = req
        ELSE /\ req' = [req EXCEPT ![r] =
                   [IdleReq EXCEPT !.op = "checkout", !.pc = "loaded", !.user_id = u,
                                   !.cart_items = cart_items,
                                   !.delivery_date = dateOffset,
                                   !.delivery_window = window,
                                   !.phone_number = NotEmpty(phone),
                                   !.body_phone_number = phone]]
             /\ last' = last
  /\ UNCHANGED <<db, emails>>

\* Steps 1-2 of create_order_from_cart: delivery timing, load the cart.
CheckoutBegin(r, u, dateOffset, window, now, phone) ==
  /\ CanBegin(r)
  /\ NotEmpty(phone) # <<>>
  /\ Len(orders) + Cardinality({s \in Slots : req[s].op = "checkout"}) < MaxOrders
  /\ LET timing == ValidateDeliveryTiming(dateOffset, window, now)
         cart_items == ListForUser(u)
     IN IF timing # "ok"
        THEN /\ last' = Response("checkout", u, timing)
             /\ req' = req
        ELSE IF CartIsEmpty(cart_items)
        THEN /\ last' = Response("checkout", u, "EmptyCart")
             /\ req' = req
        ELSE /\ req' = [req EXCEPT ![r] =
                   [IdleReq EXCEPT !.op = "checkout", !.pc = "loaded", !.user_id = u,
                                   !.cart_items = cart_items,
                                   !.delivery_date = dateOffset,
                                   !.delivery_window = window,
                                   !.phone_number = NotEmpty(phone),
                                   !.body_phone_number = phone]]
             /\ last' = last
  /\ UNCHANGED <<db, emails>>

\* Steps 3-4: read every referenced product, validate every line, compute
\* the subtotal.  Nothing has been written yet.
CheckoutValidate(r) ==
  /\ req[r].pc = "loaded"
  /\ LET cart_items == req[r].cart_items
         u == req[r].user_id
         product_map == [p \in Products |->
                           IF \E ci \in cart_items : ci.product_id = p
                           THEN products[p] ELSE NoProduct]
         errors == CartErrors(cart_items, product_map)
     IN IF errors # {}
        THEN /\ last' = [Response("checkout", u, "CartValidationFailed") EXCEPT
                           !.errors = errors]
             /\ req' = [req EXCEPT ![r] = IdleReq]
        ELSE IF Subtotal(cart_items) <= 0
        THEN /\ last' = Response("checkout", u, "InvalidOrderAmount")
             /\ req' = [req EXCEPT ![r] = IdleReq]
        ELSE /\ req' = [req EXCEPT ![r] = [@ EXCEPT !.pc = "validated",
                                                    !.product_map = product_map]]
             /\ last' = last
  /\ UNCHANGED <<db, emails>>

NewOrderConfirmed(r) ==
  [id |-> Len(orders) + 1, user_id |-> req[r].user_id,
   phone_number |-> req[r].phone_number,
   delivery_date |-> req[r].delivery_date,
   delivery_window |-> req[r].delivery_window,
   status |-> "confirmed",
   total_amount |-> TotalAmount(Subtotal(req[r].cart_items))]

\* Steps 5-9: INSERT the order and its items (flush), deduct the stock of the
\* products read in step 3, delete the loaded cart rows, commit.  The new
\* stock is the value read at validation minus the quantities of the lines;
\* it is written as an absolute value (UPDATE ... SET stock_on_hand = n).
NewOrder(r) ==
  [id |-> Len(orders) + 1, user_id |-> req[r].user_id,
   phone_number |-> req[r].phone_number,
   delivery_date |-> req[r].delivery_date,
   delivery_window |-> req[r].delivery_window,
   status |-> "pending",
   total_amount |-> TotalAmount(Subtotal(req[r].cart_items))]

LivePricedOrderItems(r) ==
  {[id |-> Cardinality(order_items)
             + Cardinality({x \in req[r].cart_items : x.id <= ci.id}),
    order_id |-> Len(orders) + 1, product_id |-> ci.product_id,
    quantity |-> ci.quantity,
    unit_price |-> req[r].product_map[ci.product_id].price] : ci \in req[r].cart_items}

NoOrderItems(r) == {}

NewOrderItems(r) ==
  {[id |-> Cardinality(order_items)
             + Cardinality({x \in req[r].cart_items : x.id <= ci.id}),
    order_id |-> Len(orders) + 1, product_id |-> ci.product_id,
    quantity |-> ci.quantity, unit_price |-> ci.snapshot_price] : ci \in req[r].cart_items}

CartProducts(r) == {ci.product_id : ci \in req[r].cart_items}

DeductsOnePerLine(r, p) ==
  req[r].product_map[p].stock_on_hand
    - Cardinality({ci \in req[r].cart_items : ci.product_id = p})

DeductedStock(r, p) == req[r].product_map[p].stock_on_hand - SumQty(req[r].cart_items, p)

DeductedProducts(r) ==
  [p \in Products |->
     IF p \in CartProducts(r)
     THEN [products[p] EXCEPT !.stock_on_hand = DeductedStock(r, p)]
     ELSE products[p]]

UnclearedCart(r) == cart

ClearedCartOfAll(r) == {}

ClearedCart(r) == {ci \in cart : \A loaded \in req[r].cart_items : ci.id # loaded.id}

NoUnderflowCheck(r) == FALSE

StockUnderflow(r) == \E p \in CartProducts(r) : DeductedStock(r, p) < 0

\* Ghost: another user's request that has validated its cart and not yet
\* committed records the products this commit has deducted.
CheckoutCommit(r) ==
  /\ req[r].pc = "validated"
  /\ IF StockUnderflow(r)
     THEN /\ orders' = Rollback(orders, Append(orders, NewOrder(r)))
          /\ order_items' = Rollback(order_items, order_items \cup NewOrderItems(r))
          /\ products' = Rollback(products, DeductedProducts(r))
          /\ cart' = Rollback(cart, cart)
          /\ last' = Response("checkout", req[r].user_id, "StockUnderflow")
          /\ req' = [req EXCEPT ![r] = IdleReq]
     ELSE /\ orders' = Append(orders, NewOrder(r))
          /\ order_items' = order_items \cup NewOrderItems(r)
          /\ products' = DeductedProducts(r)
          /\ cart' = ClearedCart(r)
          /\ last' = [Response("checkout", req[r].user_id, "ok") EXCEPT
                        !.order_id = Len(orders) + 1]
          /\ req' = [s \in Slots |->
                IF s = r THEN IdleReq
                ELSE IF req[s].pc = "validated" /\ req[s].user_id # req[r].user_id
                THEN [req[s] EXCEPT !.raced = @ \cup (CartProducts(r) \cap CartProducts(s))]
                ELSE req[s]]
  /\ UNCHANGED <<nextCartId, emails>>

\* ------------------------------------------------------------ order reads
GetUserOrderTellsForeign(u, order_id) ==
  IF order_id \notin DOMAIN orders
  THEN [result |-> "NotFound", view |-> {}]
  ELSE IF orders[order_id].user_id # u
  THEN [result |-> "Forbidden", view |-> {}]
  ELSE [result |-> "ok",
        view |-> {BuildOrderWithItemsDto(orders[order_id],
                    {it \in order_items : it.order_id = order_id})}]

\* get_user_order: what the caller is answered, the view being a set of at
\* most one order.
GetUserOrder(u, order_id) ==
  IF order_id \notin DOMAIN orders \/ orders[order_id].user_id # u
  THEN [result |-> "NotFound", view |-> {}]
  ELSE [result |-> "ok",
        view |-> {BuildOrderWithItemsDto(orders[order_id],
                    {it \in order_items : it.order_id = order_id})}]

\* GET /orders/me/{order_id}; last keeps the requested id beside the result.
GetMyOrder(r, u, order_id) ==
  /\ CanBegin(r)
  /\ last' = [NoResponse EXCEPT !.op = "get_my_order",
                                !.result = GetUserOrder(u, order_id).result,
                                !.order_id = order_id]
  /\ UNCHANGED <<db, req, emails>>

\* ----------------------------------------------------- order status machine
NeverSelfTransition(current, new) == FALSE

IsSelfTransition(current, new) == current = new

UpdateStatusBegin(r, order_id, new) ==
  /\ CanBegin(r)
  /\ LET found == order_id \in DOMAIN orders
         current == IF found THEN orders[order_id].status ELSE "none"
         answer(result) == [Response("update_status", "admin", result) EXCEPT
                              !.order_id = order_id, !.current = current, !.new = new]
     IN IF ~found
        THEN /\ last' = answer("NotFound")
             /\ req' = req
        ELSE IF IsSelfTransition(current, new)
        THEN /\ last' = answer("ok")
             /\ req' = req
        ELSE IF current \notin DOMAIN Allowed \/ new \notin Allowed[current]
        THEN /\ last' = answer("InvalidStatusTransition")
             /\ req' = req
        ELSE /\ req' = [req EXCEPT ![r] =
                   [IdleReq EXCEPT !.op = "update_status", !.pc = "transition",
                                   !.user_id = "admin", !.order_id = order_id,
                                   !.current = current, !.new = new]]
             /\ last' = last
  /\ UNCHANGED <<db, emails>>

RequireAuthOnly(role) == IF role = "guest" THEN "Unauthorized" ELSE "ok"

\* require_admin over require_auth: 401 without an identity, 403 for a role
\* other than admin.
RequireAdmin(role) ==
  IF role = "guest" THEN "Unauthorized"
  ELSE IF role # "admin" THEN "Forbidden"
  ELSE "ok"

\* PATCH /orders/{order_id}/status: the dependency require_admin is resolved
\* before the handler calls update_status.
UpdateOrderStatus(r, role, order_id, new) ==
  IF RequireAdmin(role) = "ok"
  THEN UpdateStatusBegin(r, order_id, new)
  ELSE /\ CanBegin(r)
       /\ last' = Response("update_status", role, RequireAdmin(role))
       /\ UNCHANGED <<db, req, emails>>

DispatchErrorSurfaced(r, email) ==
  [Response("update_status", "admin", IF email = "error" THEN "ServerError" ELSE "ok") EXCEPT
     !.order_id = req[r].order_id, !.current = req[r].current,
     !.new = req[r].new, !.email = email]

\* The answer of a status update that went through.
StatusUpdated(r, email) ==
  [Response("update_status", "admin", "ok") EXCEPT
     !.order_id = req[r].order_id, !.current = req[r].current,
     !.new = req[r].new, !.email = email]

AnyTransitionNotifies(current, new) == TRUE

\* The confirmation email is due when the update newly enters confirmed.
EntersConfirmed(current, new) == current # "confirmed" /\ new = "confirmed"

UpdateStatusOfAll(r) ==
  /\ req[r].pc = "transition"
  /\ orders' = [i \in DOMAIN orders |-> [orders[i] EXCEPT !.status = req[r].new]]
  /\ IF EntersConfirmed(req[r].current, req[r].new)
     THEN /\ req' = [req EXCEPT ![r].pc = "notify"]
          /\ last' = last
     ELSE /\ req' = [req EXCEPT ![r] = IdleReq]
          /\ last' = StatusUpdated(r, "none")
  /\ UNCHANGED <<products, cart, nextCartId, order_items, emails>>

UpdateStatusDefersCommit(r) ==
  /\ req[r].pc = "transition"
  /\ IF EntersConfirmed(req[r].current, req[r].new)
     THEN /\ orders' = orders
          /\ req' = [req EXCEPT ![r].pc = "notify"]
          /\ last' = last
     ELSE /\ orders' = [orders EXCEPT ![req[r].order_id].status = req[r].new]
          /\ req' = [req EXCEPT ![r] = IdleReq]
          /\ last' = StatusUpdated(r, "none")
  /\ UNCHANGED <<products, cart, nextCartId, order_items, emails>>

\* order.status = new, commit, refresh.  A request that has to send the
\* confirmation email goes on to SendOrderConfirmationEmail.
UpdateStatusCommit(r) ==
  /\ req[r].pc = "transition"
  /\ orders' = [orders EXCEPT ![req[r].order_id].status = req[r].new]
  /\ IF EntersConfirmed(req[r].current, req[r].new)
     THEN /\ req' = [req EXCEPT ![r].pc = "notify"]
          /\ last' = last
     ELSE /\ req' = [req EXCEPT ![r] = IdleReq]
          /\ last' = StatusUpdated(r, "none")
  /\ UNCHANGED <<products, cart, nextCartId, order_items, emails>>

NoEmailOnFile(u) == FALSE

\* Every row of users is created by get_current_user from a token that
\* carries an email.
HasEmail(u) == u \in Users

\* _send_order_confirmation_email inside the try/except of update_status:
\* nothing is sent to a user without email; otherwise send_email is called
\* once and either delivers or raises, and what it raises is swallowed.
SendOrderConfirmationEmail(r, outcome) ==
  /\ req[r].pc = "notify"
  /\ IF HasEmail(orders[req[r].order_id].user_id)
     THEN /\ emails' = [emails EXCEPT ![req[r].order_id] = @ + 1]
          /\ last' = StatusUpdated(r, outcome)
     ELSE /\ emails' = emails
          /\ last' = StatusUpdated(r, "none")
  /\ req' = [req EXCEPT ![r] = IdleReq]
  /\ UNCHANGED db

\* ------------------------------------------------------------------- Next
\* Every operation with its inputs drawn from the scope of a specification:
\* R request slots, U users, P products, PR prices, A is_active values.

\* The payloads of update_product that set exactly one field.
Payloads(PR, A) ==
  {[price |-> {v}, stock |-> {}, active |-> {}] : v \in PR}
    \cup {[price |-> {}, stock |-> {v}, active |-> {}] : v \in Stocks}
    \cup {[price |-> {}, stock |-> {}, active |-> {v}] : v \in A}

DoCreateProduct(P, PR, A) == \E p \in P, price \in PR, stock \in Stocks, active \in A :
  CreateProduct(p, price, stock, active)

DoUpdateProduct(P, PR, A) == \E p \in P, payload \in Payloads(PR, A) :
  UpdateProduct(p, payload.price, payload.stock, payload.active)

DoAddToCartBegin(R, U, P) == \E r \in R, u \in U, p \in P, q \in Quantities :
  AddToCartBegin(r, u, p, q)

DoAddToCartCommit == \E r \in Slots : AddToCartCommit(r)

DoUpdateQuantity(R, U, P) == \E r \in R, u \in U, p \in P, q \in Quantities :
  UpdateQuantity(r, u, p, q)

DoRemoveItem(R, U, P) == \E r \in R, u \in U, p \in P : RemoveItem(r, u, p)

DoClearCart(R, U) == \E r \in R, u \in U : ClearCart(r, u)

DoCheckoutBegin(R, U, W, N, PH) ==
  \E r \in R, u \in U, d \in DateOffsets, w \in W, n \in N, phone \in PH :
    CheckoutBegin(r, u, d, w, n, phone)

DoCheckoutValidate == \E r \in Slots : CheckoutValidate(r)

DoCheckoutCommit == \E r \in Slots : CheckoutCommit(r)

DoUpdateStatusBegin(R) == \E r \in R, o \in OrderIds, s \in Statuses : UpdateStatusBegin(r, o, s)

DoUpdateStatusCommit == \E r \in Slots : UpdateStatusCommit(r)

SendOutcomes == {"sent", "error"}

DoSendOrderConfirmationEmail == \E r \in Slots, outcome \in SendOutcomes :
  SendOrderConfirmationEmail(r, outcome)

\* Spec: concurrent add_to_cart, checkout and admin product requests against
\* one active product.  Slots and users are interchangeable, so slot r1
\* carries the requests of u1 and slot r2 those of either user: r2 runs
\* beside r1 a request of the same user or of the other one.
ConcProducts == {"p1"}
BasePrices == {500}
ConcActive == {TRUE}
ConcWindows == {"morning"}
ConcNow == {510}
ConcPhones == {<<"0", "9">>}
Serves == [r \in Slots |-> IF r = "r1" THEN {"u1"} ELSE Users]

Next ==
  \/ DoCreateProduct(ConcProducts, BasePrices, ConcActive)
  \/ DoUpdateProduct(ConcProducts, BasePrices, ConcActive)
  \/ \E r \in Slots : DoAddToCartBegin({r}, Serves[r], ConcProducts)
  \/ DoAddToCartCommit
  \/ \E r \in Slots : DoCheckoutBegin({r}, Serves[r], ConcWindows, ConcNow, ConcPhones)
  \/ DoCheckoutValidate
  \/ DoCheckoutCommit

Spec == Init /\ [][Next]_vars

\* SpecSeq: one instance; a request begins only when no other request holds
\* the instance's single pooled connection.
NoneInFlight == \A s \in Slots : ~InFlight(s)

SeqSlots == {"r1"}
SeqUsers == {"u1"}
SeqWindows == {"morning", "custom"}

NextSeq ==
  \/ NoneInFlight /\ DoCreateProduct(Products, BasePrices, BOOLEAN)
  \/ NoneInFlight /\ DoUpdateProduct(Products, BasePrices, BOOLEAN)
  \/ NoneInFlight /\ DoAddToCartBegin(SeqSlots, SeqUsers, Products)
  \/ DoAddToCartCommit
  \/ NoneInFlight /\ DoUpdateQuantity(SeqSlots, SeqUsers, Products)
  \/ NoneInFlight /\ DoRemoveItem(SeqSlots, SeqUsers, Products)
  \/ NoneInFlight /\ DoClearCart(SeqSlots, SeqUsers)
  \/ NoneInFlight /\ DoCheckoutBegin(SeqSlots, SeqUsers, SeqWindows, NowMinutes, ConcPhones)
  \/ DoCheckoutValidate
  \/ DoCheckoutCommit

SpecSeq == Init /\ [][NextSeq]_vars

\* SpecOrderSeq: one instance serving one customer and the admin, with two
\* prices, so that a product's live price can differ from the price a cart
\* line froze; products are created active with full stock.
OrderPrices == {333, 500, 1000}

NextOrderSeq ==
  \/ NoneInFlight /\ \E p \in Products, price \in OrderPrices :
                       CreateProduct(p, price, MaxStock, TRUE)
  \/ NoneInFlight /\ \E p \in Products, price \in OrderPrices :
                       UpdateProduct(p, {price}, {}, {})
  \/ NoneInFlight /\ DoAddToCartBegin(SeqSlots, SeqUsers, Products)
  \/ DoAddToCartCommit
  \/ NoneInFlight /\ DoUpdateQuantity(SeqSlots, SeqUsers, Products)
  \/ NoneInFlight /\ DoCheckoutBegin(SeqSlots, SeqUsers, ConcWindows, ConcNow, ConcPhones)
  \/ DoCheckoutValidate
  \/ DoCheckoutCommit

SpecOrderSeq == Init /\ [][NextOrderSeq]_vars

\* SpecCheckoutSeq: one instance on which both customers check out carts of
\* product p1, with either delivery window and with a contact field sent
\* with or without surrounding blanks.
OrderWindows == {"morning", "evening"}
BodyPhones == {<<"0", "9">>, <<" ", "0", "9", " ">>}

NextCheckoutSeq ==
  \/ NoneInFlight /\ DoCreateProduct(ConcProducts, BasePrices, ConcActive)
  \/ NoneInFlight /\ DoAddToCartBegin(SeqSlots, Users, ConcProducts)
  \/ DoAddToCartCommit
  \/ NoneInFlight /\ DoCheckoutBegin(SeqSlots, Users, OrderWindows, ConcNow, BodyPhones)
  \/ NoneInFlight /\ \E u \in Users, o \in OrderIds : GetMyOrder("r1", u, o)
  \/ DoCheckoutValidate
  \/ DoCheckoutCommit

SpecCheckoutSeq == Init /\ [][NextCheckoutSeq]_vars

\* SpecFrameSeq: one instance on which every kind of operation meets committed
\* orders: the admin creates and reprices product p1 and moves orders through
\* the status machine while the customer fills the cart and checks out again.
FramePrices == {500, 1000}

NextFrameSeq ==
  \/ NoneInFlight /\ \E price \in FramePrices : CreateProduct("p1", price, MaxStock, TRUE)
  \/ NoneInFlight /\ \E price \in FramePrices : UpdateProduct("p1", {price}, {}, {})
  \/ NoneInFlight /\ DeleteProduct("p1")
  \/ NoneInFlight /\ DoAddToCartBegin(SeqSlots, SeqUsers, ConcProducts)
  \/ DoAddToCartCommit
  \/ NoneInFlight /\ DoRemoveItem(SeqSlots, SeqUsers, ConcProducts)
  \/ NoneInFlight /\ DoCheckoutBegin(SeqSlots, SeqUsers, ConcWindows, ConcNow, ConcPhones)
  \/ DoCheckoutValidate
  \/ DoCheckoutCommit
  \/ NoneInFlight /\ DoUpdateStatusBegin(SeqSlots)
  \/ DoUpdateStatusCommit
  \/ DoSendOrderConfirmationEmail

SpecFrameSeq == Init /\ [][NextFrameSeq]_vars

\* SpecTimingSeq: one instance on which one customer checks out carts of
\* product p1 for yesterday, today or tomorrow, in every window, at times of
\* day on both sides of each window's lead-time boundary.
TimingDates == {-1, 0, 1}
TimingNow == {480, 510, 511, 525, 810, 811, 1110, 1111}

NextTimingSeq ==
  \/ NoneInFlight /\ DoCreateProduct(ConcProducts, BasePrices, ConcActive)
  \/ NoneInFlight /\ DoAddToCartBegin(SeqSlots, SeqUsers, ConcProducts)
  \/ DoAddToCartCommit
  \/ NoneInFlight /\ \E d \in TimingDates, w \in Windows, n \in TimingNow :
                       CheckoutBegin("r1", "u1", d, w, n, <<"0", "9">>)
  \/ DoCheckoutValidate
  \/ DoCheckoutCommit

SpecTimingSeq == Init /\ [][NextTimingSeq]_vars

\* SpecValidateSeq: one instance on which one customer fills a cart with two
\* products and checks out while the admin changes their stock and switches
\* them on and off, so that the lines of a stored cart go bad in every
\* combination.
NextValidateSeq ==
  \/ NoneInFlight /\ DoCreateProduct(Products, BasePrices, BOOLEAN)
  \/ NoneInFlight /\ DoUpdateProduct(Products, BasePrices, BOOLEAN)
  \/ NoneInFlight /\ DoAddToCartBegin(SeqSlots, SeqUsers, Products)
  \/ DoAddToCartCommit
  \/ NoneInFlight /\ DoCheckoutBegin(SeqSlots, SeqUsers, ConcWindows, ConcNow, ConcPhones)
  \/ DoCheckoutValidate
  \/ DoCheckoutCommit

SpecValidateSeq == Init /\ [][NextValidateSeq]_vars

\* SpecLineSeq: the validation loop of checkout applied to drawn inputs.  The
\* cart rows of one customer and the product rows they point to are drawn
\* from every combination of the fields the loop reads, including the ones
\* no call of the API stores (a snapshot price of 0, a row whose product is
\* gone, two rows of one product); the customer then checks out.
LinePrices == {0, 500}

LineProducts ==
  {NoProduct} \cup
  {[exists |-> TRUE, price |-> 500, stock_on_hand |-> st, is_active |-> a] :
     st \in Stocks, a \in BOOLEAN}

InitLines ==
  /\ products \in [Products -> LineProducts]
  /\ \E n \in 1..MaxCartRows :
       /\ nextCartId = n + 1
       /\ \E row \in [1..n -> [product_id : Products, quantity : Quantities,
                                snapshot_price : LinePrices]] :
            cart = {[id |-> i, user_id |-> "u1", product_id |-> row[i].product_id,
                     quantity |-> row[i].quantity,
                     snapshot_price |-> row[i].snapshot_price] : i \in 1..n}
  /\ orders = <<>>
  /\ order_items = {}
  /\ req = [r \in Slots |-> IdleReq]
  /\ last = NoResponse
  /\ emails = [o \in OrderIds |-> 0]

NextLineSeq ==
  \/ NoneInFlight /\ DoCheckoutBegin(SeqSlots, SeqUsers, ConcWindows, ConcNow, ConcPhones)
  \/ DoCheckoutValidate
  \/ DoCheckoutCommit

SpecLineSeq == InitLines /\ [][NextLineSeq]_vars

\* SpecStockSeq: one instance on which one customer fills and edits the cart
\* while the admin creates the two products and changes their stock and
\* activity.
NextStockSeq ==
  \/ NoneInFlight /\ DoCreateProduct(Products, BasePrices, BOOLEAN)
  \/ NoneInFlight /\ DoUpdateProduct(Products, BasePrices, BOOLEAN)
  \/ NoneInFlight /\ DoAddToCartBegin(SeqSlots, SeqUsers, Products)
  \/ DoAddToCartCommit
  \/ NoneInFlight /\ DoUpdateQuantity(SeqSlots, SeqUsers, Products)
  \/ NoneInFlight /\ DoRemoveItem(SeqSlots, SeqUsers, Products)

SpecStockSeq == Init /\ [][NextStockSeq]_vars

\* SpecAdmin: one instance serves the customer's cart and checkout requests
\* one after the other while the admin's product requests are served beside
\* it: a product update may commit at any point of a checkout.
NextAdmin ==
  \/ DoCreateProduct(ConcProducts, BasePrices, ConcActive)
  \/ DoUpdateProduct(ConcProducts, BasePrices, ConcActive)
  \/ NoneInFlight /\ DoAddToCartBegin(SeqSlots, SeqUsers, ConcProducts)
  \/ DoAddToCartCommit
  \/ NoneInFlight /\ DoCheckoutBegin(SeqSlots, SeqUsers, ConcWindows, ConcNow, ConcPhones)
  \/ DoCheckoutValidate
  \/ DoCheckoutCommit

SpecAdmin == Init /\ [][NextAdmin]_vars

\* SpecCartSeq: one instance on which one customer uses every cart operation
\* on two active products and checks out.
NextCartSeq ==
  \/ NoneInFlight /\ DoCreateProduct(Products, BasePrices, ConcActive)
  \/ NoneInFlight /\ DoAddToCartBegin(SeqSlots, SeqUsers, Products)
  \/ DoAddToCartCommit
  \/ NoneInFlight /\ DoUpdateQuantity(SeqSlots, SeqUsers, Products)
  \/ NoneInFlight /\ DoRemoveItem(SeqSlots, SeqUsers, Products)
  \/ NoneInFlight /\ DoClearCart(SeqSlots, SeqUsers)
  \/ NoneInFlight /\ DoCheckoutBegin(SeqSlots, SeqUsers, ConcWindows, ConcNow, ConcPhones)
  \/ DoCheckoutValidate
  \/ DoCheckoutCommit

SpecCartSeq == Init /\ [][NextCartSeq]_vars

\* SpecStatusSeq: the order status machine of one instance, started from a
\* state left by earlier checkouts: product p1 sold out, every order pending
\* with one line of one unit.
SoldOutOrder(i, u) ==
  [id |-> i, user_id |-> u, phone_number |-> <<"0", "9">>, delivery_date |-> 1,
   delivery_window |-> "morning", status |-> "pending",
   total_amount |-> TotalAmount(500)]

SoldOutItem(i) ==
  [id |-> i, order_id |-> i, product_id |-> "p1", quantity |-> 1, unit_price |-> 500]

InitStatus ==
  /\ products = [NoSnapshot EXCEPT !["p1"] =
        [exists |-> TRUE, price |-> 500, stock_on_hand |-> 0, is_active |-> TRUE]]
  /\ cart = {}
  /\ \E n \in 1..MaxOrders :
       /\ nextCartId = n + 1
       /\ \E owner \in [1..n -> Users] :
            orders = [i \in 1..n |-> SoldOutOrder(i, owner[i])]
       /\ order_items = {SoldOutItem(i) : i \in 1..n}
  /\ req = [r \in Slots |-> IdleReq]
  /\ last = NoResponse
  /\ emails = [o \in OrderIds |-> 0]

NextStatusSeq ==
  \/ NoneInFlight /\ DoUpdateStatusBegin(SeqSlots)
  \/ DoUpdateStatusCommit
  \/ DoSendOrderConfirmationEmail

SpecStatusSeq == InitStatus /\ [][NextStatusSeq]_vars

\* SpecStatus: the order status machine served by two instances at once,
\* from the state SpecStatusSeq starts in: two status updates may both have
\* read an order before either commits.  The admins confirm and cancel.
ConcStatuses == {"confirmed", "canceled"}

NextStatus ==
  \/ \E r \in Slots, o \in OrderIds, s \in ConcStatuses : UpdateStatusBegin(r, o, s)
  \/ DoUpdateStatusCommit
  \/ DoSendOrderConfirmationEmail

SpecStatus == InitStatus /\ [][NextStatus]_vars

\* SpecAuthSeq: the status route of one instance, called by a guest, by a
\* customer and by an admin, from the state SpecStatusSeq starts in.
Roles == {"guest", "user", "admin"}

NextAuthSeq ==
  \/ NoneInFlight /\ \E role \in Roles, o \in OrderIds, s \in Statuses :
                       UpdateOrderStatus("r1", role, o, s)
  \/ DoUpdateStatusCommit
  \/ DoSendOrderConfirmationEmail

SpecAuthSeq == InitStatus /\ [][NextAuthSeq]_vars

\* ----------------------------------------------------------------- claims
\* The step in which checkout request r ends (commit or failure).
CheckoutEnds(r) == req[r].pc \in {"loaded", "validated"} /\ req'[r].pc = "idle"

CheckoutCommits(r) ==
  /\ req[r].pc = "validated" /\ req'[r].pc = "idle"
  /\ last'.op = "checkout" /\ last'.result = "ok"

\* C1: of two simultaneous checkouts by two users that each request all the
\* stock of one product, exactly one commits and the other fails with
\* InsufficientStock, and the stock never becomes negative.  Stated for the
\* second of the two: a request that validated a line for all the stock it
\* read, and then saw another user's checkout deduct that product so that
\* the committed stock no longer covers the line, commits no order and
\* reports InsufficientStock.
C1_ExactlyOneCheckoutCommits ==
  [][\A r \in Slots :
       (/\ CheckoutEnds(r)
        /\ req[r].pc = "validated"
        /\ \E ci \in req[r].cart_items :
             /\ ci.product_id \in req[r].raced
             /\ ci.quantity = req[r].product_map[ci.product_id].stock_on_hand
             /\ ci.quantity > products[ci.product_id].stock_on_hand)
       => /\ Len(orders') = Len(orders)
          /\ last'.op = "checkout"
          /\ \E e \in last'.errors : e.reason = "InsufficientStock"
          /\ \A p \in Products : products'[p].stock_on_hand >= 0]_vars

\* C2: checkout is all-or-nothing.  The step that ends a checkout either
\* commits the order row, one item per converted cart line, the stock
\* written for every product of those lines and the deletion of those
\* lines, all together, or it commits nothing; order rows and item rows
\* never change apart from each other.
C2_AllLanded(r) ==
  LET n == Len(orders) + 1
      lines == req[r].cart_items
      created == {it \in order_items' : it.order_id = n}
  IN /\ Len(orders') = n
     /\ orders'[n].user_id = req[r].user_id
     /\ order_items' = order_items \cup created
     /\ Cardinality(created) = Cardinality(lines)
     /\ \A ci \in lines :
          /\ \E it \in created : /\ it.product_id = ci.product_id
                                 /\ it.quantity = ci.quantity
                                 /\ it.unit_price = ci.snapshot_price
          /\ SumQty(created, ci.product_id) = SumQty(lines, ci.product_id)
          /\ products'[ci.product_id].stock_on_hand =
               req[r].product_map[ci.product_id].stock_on_hand - SumQty(lines, ci.product_id)
          /\ \A row \in cart' : row.id # ci.id

C2_CheckoutAllOrNothing ==
  [][/\ \A r \in Slots : CheckoutEnds(r) => (C2_AllLanded(r) \/ UNCHANGED db)
     /\ Len(orders') = Len(orders) => order_items' = order_items
     /\ Len(orders') # Len(orders) => \E r \in Slots : CheckoutEnds(r) /\ C2_AllLanded(r)]_vars

C2_Witness == last.op = "checkout" /\ last.result = "StockUnderflow" /\ cart # {}

\* C3: a checkout that fails (timing, empty cart, cart validation, order
\* amount, stock underflow) leaves cart, stock, orders and order items as
\* they were.
C3_FailedCheckoutChangesNothing ==
  [][/\ (last' # last /\ last'.op = "checkout" /\ last'.result # "ok") => UNCHANGED db
     /\ \A r \in Slots :
          (CheckoutEnds(r) /\ last'.op = "checkout" /\ last'.result # "ok")
            => UNCHANGED db]_vars

C3_Witness ==
  /\ last.op = "checkout" /\ last.result = "CartValidationFailed"
  /\ cart # {}
  /\ \E p \in Products : products[p].exists /\ products[p].stock_on_hand > 0

\* C4: right after a successful checkout by a user, the cart of that user
\* has no lines.
C4_CartEmptyAfterCheckout ==
  [][\A r \in Slots :
       CheckoutCommits(r) => {ci \in cart' : ci.user_id = req[r].user_id} = {}]_vars

C4_Witness ==
  /\ last.op = "checkout" /\ last.result = "ok"
  /\ cart = {} /\ Cardinality(order_items) >= 2

\* C5: in every committed state every product has stock_on_hand >= 0.
C5_StockNeverNegative == \A p \in Products : products[p].stock_on_hand >= 0

C5_Witness ==
  /\ Len(orders) = 2
  /\ products["p1"].exists /\ products["p1"].stock_on_hand = 0

\* C6: on a successful checkout the committed stock of each product of the
\* cart goes down by the sum of the quantities of the user's cart lines for
\* it, which is the sum of the quantities of the order items created for
\* it, and the stock of every other product is unchanged.
C6_DeductionEqualsCart ==
  [][\A r \in Slots :
       CheckoutCommits(r) =>
         LET lines == {ci \in cart : ci.user_id = req[r].user_id}
             created == {it \in order_items' : it.order_id = Len(orders')}
         IN \A p \in Products :
              /\ products[p].stock_on_hand - products'[p].stock_on_hand = SumQty(lines, p)
              /\ SumQty(created, p) = SumQty(lines, p)
              /\ SumQty(lines, p) = 0 => products'[p] = products[p]]_vars

C6_Witness ==
  /\ last.op = "checkout" /\ last.result = "ok"
  /\ \A p \in Products : products[p].exists
  /\ \E it \in order_items :
       /\ it.order_id = last.order_id /\ it.quantity = 2
       /\ \A other \in order_items : other.order_id = it.order_id => other = it

\* C7 as claimed: only a successful checkout lowers a product's stock.
C7_OnlyCheckoutLowersStock ==
  [][\A p \in Products :
       products'[p].stock_on_hand < products[p].stock_on_hand
         => \E r \in Slots : CheckoutCommits(r)]_vars

\* C7 as amended: a product's stock is lowered only by a successful checkout
\* or by an admin's update_product; no cart operation and no failed checkout
\* lowers it.
C7_OnlyCheckoutOrAdminLowersStock ==
  [][\A p \in Products :
       products'[p].stock_on_hand < products[p].stock_on_hand
         => \/ /\ \E r \in Slots : CheckoutCommits(r)
               /\ Len(orders') = Len(orders) + 1
            \/ \E payload \in Payloads(BasePrices, BOOLEAN) :
                 /\ payload.stock # {}
                 /\ UpdateProduct(p, payload.price, payload.stock, payload.active)]_vars

C7_Witness ==
  /\ last.op = "checkout" /\ last.result = "ok"
  /\ \E it \in order_items :
       /\ it.order_id = last.order_id
       /\ products[it.product_id].stock_on_hand = MaxStock - it.quantity

\* C8: update_status changes the status of an order only along
\* pending->confirmed, pending->canceled, confirmed->shipped and
\* confirmed->canceled; any other request for a different status fails with
\* InvalidStatusTransition and leaves the status unchanged.
C8_Edges ==
  {<<"pending", "confirmed">>, <<"pending", "canceled">>,
   <<"confirmed", "shipped">>, <<"confirmed", "canceled">>}

C8_OnlyAllowedTransitions ==
  [][/\ \A i \in DOMAIN orders :
          orders'[i].status # orders[i].status
            => <<orders[i].status, orders'[i].status>> \in C8_Edges
     /\ \A r \in Slots, o \in DOMAIN orders, s \in Statuses :
          (/\ UpdateStatusBegin(r, o, s)
           /\ s # orders[o].status
           /\ <<orders[o].status, s>> \notin C8_Edges)
            => /\ last'.result = "InvalidStatusTransition"
               /\ orders' = orders
               /\ req' = req]_vars

C8_Witness ==
  /\ last.op = "update_status" /\ last.result = "InvalidStatusTransition"
  /\ last.current = "shipped" /\ last.new = "confirmed"
  /\ orders[last.order_id].status = "shipped"

\* C9: shipped and canceled are terminal: an order whose committed status is
\* shipped or canceled keeps it in every later state.
C9_TerminalStatusesStay ==
  [][\A i \in DOMAIN orders :
       orders[i].status \in {"shipped", "canceled"}
         => orders'[i].status = orders[i].status]_vars

C9_Witness ==
  /\ last.op = "update_status" /\ last.result = "InvalidStatusTransition"
  /\ last.current = "canceled"
  /\ orders[last.order_id].status = "canceled"

\* C10: update_status with the order's current status succeeds, changes
\* nothing, and so gives the same answer however often it is repeated.
C10_SelfTransitionIsNoOp ==
  [][\A r \in Slots, o \in DOMAIN orders, s \in Statuses :
       (UpdateStatusBegin(r, o, s) /\ s = orders[o].status)
         => /\ last'.op = "update_status" /\ last'.result = "ok"
            /\ last'.order_id = o
            /\ orders' = orders
            /\ UNCHANGED <<products, cart, order_items, req>>]_vars

C10_Witness ==
  /\ last.op = "update_status" /\ last.result = "ok"
  /\ last.current = last.new
  /\ last.new \in {"shipped", "canceled"}
  /\ orders[last.order_id].status = last.new

\* A status update request r that moves its order from pending to confirmed.
ConfirmsPending(r) ==
  /\ req[r].op = "update_status"
  /\ req[r].current = "pending" /\ req[r].new = "confirmed"

\* C11: every update_status call that moves an order from pending to
\* confirmed makes exactly one dispatch attempt for that order: none at the
\* commit, one before it answers, none for any other order; so an order that
\* is confirmed or shipped and has no call still at work has had exactly one.
C11_OneDispatchPerConfirmation ==
  [][/\ \A r \in Slots :
          ConfirmsPending(r) =>
            /\ (req[r].pc = "transition" /\ req'[r] # req[r])
                 => req'[r].pc = "notify" /\ emails' = emails
            /\ (req[r].pc = "notify" /\ req'[r] # req[r])
                 => /\ req'[r].pc = "idle"
                    /\ emails' = [emails EXCEPT ![req[r].order_id] = @ + 1]
     /\ \A o \in DOMAIN orders :
          (/\ orders'[o].status \in {"confirmed", "shipped"}
           /\ \A r \in Slots : req'[r].order_id # o)
            => emails'[o] = 1]_vars

C11_Witness ==
  /\ last.op = "update_status" /\ last.result = "ok"
  /\ last.current = "pending" /\ last.new = "confirmed"
  /\ emails[last.order_id] = 1

\* C12: when the dispatcher raises during a pending->confirmed update, the
\* committed status stays confirmed and the call answers success with the
\* confirmed order.
C12_DispatchErrorSwallowed ==
  [][\A r \in Slots :
       (ConfirmsPending(r) /\ SendOrderConfirmationEmail(r, "error"))
         => /\ orders' = orders
            /\ orders'[req[r].order_id].status = "confirmed"
            /\ last'.op = "update_status" /\ last'.result = "ok"
            /\ last'.order_id = req[r].order_id /\ last'.new = "confirmed"]_vars

C12_Witness ==
  /\ last.op = "update_status" /\ last.result = "ok" /\ last.email = "error"
  /\ last.new = "confirmed"
  /\ orders[last.order_id].status = "confirmed"

\* C13: the status confirmed is committed before the dispatch attempt: no
\* dispatch is attempted for an order whose committed status is pending.
C13_CommitBeforeDispatch ==
  [][\A o \in DOMAIN orders :
       emails'[o] # emails[o]
         => orders[o].status # "pending" /\ orders'[o].status = orders[o].status]_vars

C13_Witness ==
  /\ last.op = "update_status" /\ last.email = "sent"
  /\ emails[last.order_id] = 1
  /\ orders[last.order_id].status = "confirmed"

\* C14: a dispatch is attempted only by an update_status call whose previous
\* status is not confirmed and whose new status is confirmed; a
\* self-transition, a rejected transition, a missing order and a transition
\* to shipped or canceled attempt none.
C14_DispatchOnlyOnEnteringConfirmed ==
  [][/\ \A o \in OrderIds :
          emails'[o] # emails[o]
            => \E r \in Slots :
                 /\ req[r].op = "update_status" /\ req[r].order_id = o
                 /\ req[r].current # "confirmed" /\ req[r].new = "confirmed"
                 /\ req'[r].pc = "idle"
     /\ \A r \in Slots, o \in OrderIds, s \in Statuses :
          (UpdateStatusBegin(r, o, s) /\ req'[r].pc = "idle") => emails' = emails
     /\ \A r \in Slots :
          (req[r].pc = "transition" /\ req[r].new # "confirmed" /\ req'[r] # req[r])
            => req'[r].pc = "idle" /\ emails' = emails]_vars

C14_Witness ==
  /\ last.op = "update_status" /\ last.result = "ok"
  /\ last.current = "pending" /\ last.new = "canceled"
  /\ emails[last.order_id] = 0

\* The order row a step appends.
Appended == orders'[Len(orders')]

\* v is body without its leading and trailing blanks.
IsTrimmed(v, body) ==
  \E i, j \in 1..Len(body) :
    /\ v = SubSeq(body, i, j)
    /\ body[i] # " " /\ body[j] # " "
    /\ \A k \in 1..Len(body) : (k < i \/ k > j) => body[k] = " "

C15_StartsPending(r) ==
  /\ Len(orders') = Len(orders) + 1
  /\ Appended.status = "pending"
  /\ Appended.user_id = req[r].user_id
  /\ Appended.total_amount = TotalAmount(Subtotal({ci \in cart : ci.user_id = req[r].user_id}))
  /\ Appended.delivery_date = req[r].delivery_date
  /\ Appended.delivery_window = req[r].delivery_window

C15_OnlyCheckoutAddsOrders ==
  Len(orders') # Len(orders) =>
    /\ \E r \in Slots : CheckoutCommits(r)
    /\ Appended.status = "pending"
    /\ SubSeq(orders', 1, Len(orders)) = orders

\* C15 as stated: the order a checkout commits is pending, belongs to the
\* caller, carries the total of the caller's cart, the delivery date and
\* window of the request and the contact field exactly as the request body
\* held it; no step adds an order in another way or in another status.
C15_OrderCarriesBodyFields ==
  [][/\ \A r \in Slots : CheckoutCommits(r) =>
          C15_StartsPending(r) /\ Appended.phone_number = req[r].body_phone_number
     /\ C15_OnlyCheckoutAddsOrders]_vars

\* C15 amended: as above, with the contact field stored as the body's value
\* without its surrounding blanks.
C15_OrderCarriesTrimmedFields ==
  [][/\ \A r \in Slots : CheckoutCommits(r) =>
          C15_StartsPending(r) /\ IsTrimmed(Appended.phone_number, req[r].body_phone_number)
     /\ C15_OnlyCheckoutAddsOrders]_vars

C15_Witness ==
  /\ last.op = "checkout" /\ last.result = "ok" /\ last.order_id = 2
  /\ Len(orders) = 2
  /\ orders[2].user_id = "u2" /\ orders[2].delivery_window = "evening"
  /\ orders[2].status = "pending" /\ orders[2].total_amount = TotalAmount(500)
  /\ orders[1].user_id = "u1"

\* The order items a step inserts, and the cart lines of the caller of r.
Inserted == order_items' \ order_items

CallerLines(r) == {ci \in cart : ci.user_id = req[r].user_id}

CopyOf(it, ci) ==
  /\ it.product_id = ci.product_id
  /\ it.quantity = ci.quantity
  /\ it.unit_price = ci.snapshot_price

\* C16: a checkout that commits inserts exactly one order item per cart line
\* of the caller, all of the new order, each with the line's product, its
\* quantity and its snapshot price as unit price, whatever the product's
\* live price has become.
C16_OneItemPerLineAtSnapshotPrice ==
  [][\A r \in Slots : CheckoutCommits(r) =>
       /\ Cardinality(Inserted) = Cardinality(CallerLines(r))
       /\ \A it \in Inserted : it.order_id = Appended.id
       /\ \A ci \in CallerLines(r) :
            Cardinality({it \in Inserted : CopyOf(it, ci)}) = 1
       /\ \A it \in Inserted : \E ci \in CallerLines(r) : CopyOf(it, ci)]_vars

\* An order of two lines, one of them sold at a price the product no longer has.
C16_Witness ==
  /\ last.op = "checkout" /\ last.result = "ok"
  /\ Cardinality({it \in order_items : it.order_id = last.order_id}) = 2
  /\ \E it \in order_items :
       /\ it.order_id = last.order_id
       /\ it.unit_price # products[it.product_id].price

\* C17: a cart line is inserted at the product's price of that moment, and
\* no step changes the snapshot price of a line that stays in the cart: not a
\* product update, not a quantity update, not adding the product again.
C17_SnapshotPriceFixedAtFirstAdd ==
  [][\A line \in cart' :
       IF \E ci \in cart : ci.id = line.id
       THEN \A ci \in cart : ci.id = line.id =>
              /\ line.snapshot_price = ci.snapshot_price
              /\ line.product_id = ci.product_id
       ELSE line.snapshot_price = products[line.product_id].price]_vars

\* A line of two units, added at 5.00, of a product that now costs 10.00.
C17_Witness ==
  \E ci \in cart :
    /\ ci.quantity = 2 /\ ci.snapshot_price = 500
    /\ products[ci.product_id].price = 1000

\* t is x rounded to the nearest integer, x given as the fraction n / d.
IsNearest(t, n, d) == 2 * (t * d - n) <= d /\ 2 * (n - t * d) <= d

\* The cart of the scenario: two units of A at 10.00, one of B at 5.00.
C19_ScenarioCart(lines) ==
  {[product_id |-> ci.product_id, quantity |-> ci.quantity,
    snapshot_price |-> ci.snapshot_price] : ci \in lines}
    = {[product_id |-> "p1", quantity |-> 2, snapshot_price |-> 1000],
       [product_id |-> "p2", quantity |-> 1, snapshot_price |-> 500]}

\* C19: a checkout that commits stores total_amount = subtotal + tax, the
\* subtotal being the sum of quantity * unit_price over the lines and the tax
\* 8% of the subtotal rounded once to the cent; the view returned shows the
\* same figures and, for each line, line_total = quantity * unit_price; the
\* scenario cart gives subtotal 25.00, tax 2.00 and total 27.00.
C19_TotalIsSubtotalPlusTax ==
  [][\A r \in Slots : CheckoutCommits(r) =>
       LET view == BuildOrderWithItemsDto(Appended, Inserted)
           subtotal == Subtotal(CallerLines(r))
       IN /\ view.subtotal = subtotal
          /\ IsNearest(view.tax_amount, subtotal * 8, 100)
          /\ Appended.total_amount = subtotal + view.tax_amount
          /\ view.total_amount = Appended.total_amount
          /\ \A line \in view.items : line.line_total = line.quantity * line.unit_price
          /\ Cardinality(view.items) = Cardinality(CallerLines(r))
          /\ C19_ScenarioCart(CallerLines(r)) =>
                view.subtotal = 2500 /\ view.tax_amount = 200 /\ view.total_amount = 2700]_vars

\* The scenario's order.
C19_Witness ==
  /\ last.op = "checkout" /\ last.result = "ok"
  /\ orders[last.order_id].total_amount = 2700
  /\ {[product_id |-> it.product_id, quantity |-> it.quantity, unit_price |-> it.unit_price] :
        it \in {x \in order_items : x.order_id = last.order_id}}
       = {[product_id |-> "p1", quantity |-> 2, unit_price |-> 1000],
          [product_id |-> "p2", quantity |-> 1, unit_price |-> 500]}

\* C20: checkout never answers InvalidOrderAmount: every line of a stored
\* cart has a quantity of at least 1 and a positive snapshot price, so a
\* cart that was loaded and passes the validation of its lines has a
\* positive subtotal.
C20_InvalidOrderAmountUnreachable ==
  /\ last.result # "InvalidOrderAmount"
  /\ \A ci \in cart : ci.quantity >= 1 /\ ci.snapshot_price > 0
  /\ \A r \in Slots :
       (req[r].pc = "loaded" /\ CartErrors(req[r].cart_items, products) = {})
         => req[r].cart_items # {} /\ Subtotal(req[r].cart_items) > 0
  /\ \A r \in Slots : req[r].pc = "validated" => Subtotal(req[r].cart_items) > 0

\* A checkout whose two lines passed validation and reached the guard.
C20_Witness ==
  \E r \in Slots :
    /\ req[r].pc = "validated"
    /\ Cardinality(req[r].cart_items) = 2
    /\ Subtotal(req[r].cart_items) = 333 + 500

\* C18: a step leaves every field but the status of every order it found,
\* and every order item it found, as they were, and inserts no item into an
\* order it found; a step that changes a status is the commit of the status
\* update aimed at that order, and it changes no other order.
C18_OrdersImmutableButStatus ==
  [][/\ Len(orders') >= Len(orders)
     /\ \A i \in 1..Len(orders) :
          /\ orders'[i] = [orders[i] EXCEPT !.status = orders'[i].status]
          /\ orders'[i].status # orders[i].status =>
               /\ \E r \in Slots : /\ req[r].pc = "transition"
                                    /\ req[r].order_id = i
                                    /\ req[r].new = orders'[i].status
               /\ \A j \in 1..Len(orders) : j # i => orders'[j] = orders[j]
               /\ Len(orders') = Len(orders)
     /\ {it \in order_items' : it.order_id <= Len(orders)} = order_items]_vars

\* Two orders; the first was sold at a price its product no longer has and
\* has been shipped since, the second is still pending.
C18_Witness ==
  /\ Len(orders) = 2
  /\ orders[1].status = "shipped" /\ orders[2].status = "pending"
  /\ \E it \in order_items : it.order_id = 1 /\ it.unit_price # products[it.product_id].price
  /\ \E it \in order_items : it.order_id = 2

\* What is wrong with cart line ci against the committed products, if anything.
C21_Violations(ci) ==
  LET product == products[ci.product_id]
  IN IF ~product.exists THEN {"ProductNotFound"}
     ELSE IF ~product.is_active THEN {"ProductInactive"}
     ELSE IF ci.quantity > product.stock_on_hand THEN {"InsufficientStock"}
     ELSE IF ci.snapshot_price <= 0 THEN {"InvalidCartPrice"}
     ELSE {}

\* C21: the validation step of a checkout fails with CartValidationFailed
\* exactly when some line of the loaded cart violates a rule, and the error
\* then lists every violating line with its reason and no valid line.
C21_EveryViolatingLineReported ==
  [][\A r \in Slots : (req[r].pc = "loaded" /\ req'[r].pc # "loaded") =>
       LET lines == req[r].cart_items
           bad == {ci \in lines : C21_Violations(ci) # {}}
       IN /\ (bad # {}) <=> (last'.result = "CartValidationFailed")
          /\ bad # {} =>
               /\ \A ci \in bad : \E e \in last'.errors :
                    e.product_id = ci.product_id /\ e.reason \in C21_Violations(ci)
               /\ \A e \in last'.errors : \E ci \in bad :
                    e.product_id = ci.product_id /\ e.reason \in C21_Violations(ci)
               /\ Cardinality(last'.errors) = Cardinality(bad)]_vars

\* A failed checkout that reports both lines of the cart, for different reasons.
C21_Witness ==
  /\ last.op = "checkout" /\ last.result = "CartValidationFailed"
  /\ \E e1, e2 \in last.errors :
       /\ e1.product_id # e2.product_id
       /\ e1.reason = "ProductInactive" /\ e2.reason = "InsufficientStock"
  /\ Cardinality(cart) = 2

\* The request of u1 on slot r1 is let through the timing validation: it goes
\* on to load the cart, and fails at once with EmptyCart if there is none.
TimingAccepted ==
  /\ orders' = orders
  /\ IF \E ci \in cart : ci.user_id = "u1"
     THEN req'["r1"].pc = "loaded" /\ last' = last
     ELSE req' = req /\ last'.op = "checkout" /\ last'.result = "EmptyCart"

TimingRejected(result) ==
  /\ req' = req /\ orders' = orders
  /\ last'.op = "checkout" /\ last'.result = result

\* C22: a checkout for a date before today fails with PastDate whatever its
\* window and the time of day, and a checkout for a date after today passes
\* the timing validation whatever its window, custom included, and whatever
\* the time of day.
C22_DateDecidesBeforeWindow ==
  [][\A d \in TimingDates, w \in Windows, n \in TimingNow :
       CheckoutBegin("r1", "u1", d, w, n, <<"0", "9">>) =>
         /\ d < 0 => TimingRejected("PastDate")
         /\ d > 0 => TimingAccepted]_vars

\* An order for tomorrow in the custom window, and a later request for
\* yesterday that was refused.
C22_Witness ==
  /\ \E i \in DOMAIN orders :
       orders[i].delivery_date = 1 /\ orders[i].delivery_window = "custom"
  /\ last.op = "checkout" /\ last.result = "PastDate"

\* Start of each window in minutes after midnight: 09:00, 14:00, 19:00.
C23_Start == [morning |-> 9 * 60, afternoon |-> 14 * 60, evening |-> 19 * 60]

\* C23: a same-day checkout in the custom window fails with
\* SameDayCustomNotAllowed; in the other windows it passes the timing
\* validation exactly when the window starts at or after now + 30 minutes
\* and fails with InsufficientLeadTime otherwise; morning is refused at
\* 08:45 and accepted at 08:00.
C23_SameDayLeadTime ==
  [][\A w \in Windows, n \in TimingNow :
       CheckoutBegin("r1", "u1", 0, w, n, <<"0", "9">>) =>
         /\ w = "custom" => TimingRejected("SameDayCustomNotAllowed")
         /\ (w # "custom" /\ C23_Start[w] >= n + 30) => TimingAccepted
         /\ (w # "custom" /\ C23_Start[w] < n + 30) => TimingRejected("InsufficientLeadTime")
         /\ (w = "morning" /\ n = 8 * 60 + 45) => TimingRejected("InsufficientLeadTime")
         /\ (w = "morning" /\ n = 8 * 60) => TimingAccepted]_vars

\* A same-day order in the morning window, and a later same-day request that
\* came too late for its window.
C23_Witness ==
  /\ \E i \in DOMAIN orders :
       orders[i].delivery_date = 0 /\ orders[i].delivery_window = "morning"
  /\ last.op = "checkout" /\ last.result = "InsufficientLeadTime"

\* C24: a checkout that passes the timing validation while the caller has
\* no cart line fails with EmptyCart and adds no order and no order item; in
\* particular, right after a checkout has committed an order, a further
\* checkout by the same user fails with EmptyCart.
C24_EmptyCartYieldsNoOrder ==
  [][\A u \in Users, d \in DateOffsets, w \in OrderWindows, phone \in BodyPhones :
       CheckoutBegin("r1", u, d, w, 510, phone) =>
         /\ (~ \E ci \in cart : ci.user_id = u) =>
              /\ orders' = orders /\ order_items' = order_items /\ req' = req
              /\ last'.op = "checkout"
              /\ last'.result = IF d < 0 THEN "PastDate" ELSE "EmptyCart"
         /\ (/\ last.op = "checkout" /\ last.result = "ok"
             /\ orders[last.order_id].user_id = u
             /\ d = 0) =>
              /\ last'.result = "EmptyCart"
              /\ orders' = orders /\ order_items' = order_items]_vars

\* The only cart line ever stored became an order, and a further checkout
\* found the cart empty.
C24_Witness ==
  /\ last.op = "checkout" /\ last.result = "EmptyCart"
  /\ Len(orders) = 1 /\ nextCartId = 2 /\ cart = {}
  /\ products["p1"].stock_on_hand > 0

C25_Inactive(p) == products[p].exists /\ ~products[p].is_active

\* C25: no request gets an inactive product into a cart: add_to_cart passes
\* its checks only for an active product, and a step that stores a new cart
\* line or raises a line's quantity does so for an active product; and a
\* checkout whose loaded cart holds an inactive product fails validation with
\* an entry ProductInactive for it and changes nothing, so that every order
\* item a checkout commits is of a product that is active.
C25_InactiveProductNeverSold ==
  [][/\ \A r \in Slots :
          (req[r].pc = "idle" /\ req'[r].op = "add_to_cart") =>
            ~C25_Inactive(req'[r].product_id)
     /\ \A line \in cart' :
          (\A ci \in cart : ci.id = line.id => ci.quantity < line.quantity) =>
            ~C25_Inactive(line.product_id)
     /\ \A r \in Slots :
          (req[r].pc = "loaded" /\ req'[r].pc # "loaded") =>
            \A ci \in req[r].cart_items : C25_Inactive(ci.product_id) =>
              /\ last'.op = "checkout" /\ last'.result = "CartValidationFailed"
              /\ \E e \in last'.errors :
                   e.product_id = ci.product_id /\ e.reason = "ProductInactive"
              /\ req'[r].pc = "idle"
              /\ orders' = orders /\ order_items' = order_items
              /\ cart' = cart /\ products' = products
     /\ \A it \in order_items' \ order_items : ~C25_Inactive(it.product_id)]_vars

\* A checkout refused because the product of a cart line was deactivated
\* after the line was stored.
C25_Witness ==
  /\ last.op = "checkout" /\ last.result = "CartValidationFailed"
  /\ \E ci \in cart :
       /\ C25_Inactive(ci.product_id)
       /\ \E e \in last.errors :
            e.product_id = ci.product_id /\ e.reason = "ProductInactive"
  /\ orders = <<>>

\* C26: get_user_order answers the view of order o to the user who placed
\* it; to every other caller it answers NotFound, and that answer is the one
\* the caller gets for an id no order has.
C26_ForeignOrderLooksMissing ==
  \A u \in Users, o \in OrderIds :
    IF o \in DOMAIN orders /\ orders[o].user_id = u
    THEN /\ GetUserOrder(u, o).result = "ok"
         /\ \E v \in GetUserOrder(u, o).view : v.id = o /\ v.user_id = u
    ELSE /\ GetUserOrder(u, o).result = "NotFound"
         /\ GetUserOrder(u, o) = GetUserOrder(u, MaxOrders + 1)

\* Order 1 was asked for and answered NotFound although it exists: the
\* caller was not its owner.
C26_Witness ==
  /\ last.op = "get_my_order" /\ last.result = "NotFound" /\ last.order_id = 1
  /\ Len(orders) >= 1
  /\ GetUserOrder("u2", 1).result = "NotFound"
  /\ GetUserOrder("u1", 1).result = "ok"

\* C27: a status request of a guest or of a customer is refused (401, 403)
\* and changes no order, starts no transition and sends nothing; a request
\* enters the state machine, and an order changes status, only through a
\* request of an admin.
C27_OnlyAdminChangesStatus ==
  [][/\ \A role \in Roles \ {"admin"}, o \in OrderIds, s \in Statuses :
          UpdateOrderStatus("r1", role, o, s) =>
            /\ orders' = orders /\ emails' = emails /\ req' = req
            /\ last'.op = "update_status"
            /\ last'.result = IF role = "guest" THEN "Unauthorized" ELSE "Forbidden"
     /\ \A r \in Slots :
          (req[r].pc = "idle" /\ req'[r].pc # "idle") =>
            \E o \in OrderIds, s \in Statuses : UpdateOrderStatus(r, "admin", o, s)
     /\ (orders' # orders \/ emails' # emails) =>
          \E r \in Slots : req[r].pc \in {"transition", "notify"}]_vars

\* A customer's status request was refused after an admin had confirmed
\* order 1; order 2 is still pending and nothing was sent for it.
C27_Witness ==
  /\ last.op = "update_status" /\ last.result = "Forbidden"
  /\ Len(orders) = 2
  /\ orders[1].status = "confirmed" /\ emails[1] = 1
  /\ orders[2].status = "pending" /\ emails[2] = 0

\* C28: in every committed state a user's cart holds at most one row per
\* product, two concurrent add_to_cart requests of one user for one product
\* included.
C28_OneRowPerUserAndProduct ==
  \A a, b \in cart : (a.user_id = b.user_id /\ a.product_id = b.product_id) => a.id = b.id

\* C29: no checkout ever answers StockUnderflow: for every request whose
\* lines have passed validation, deducting all the lines from the stock the
\* request read leaves every product's stock at 0 or more.
C29_StockUnderflowUnreachable ==
  /\ last.result # "StockUnderflow"
  /\ \A r \in Slots : req[r].pc = "validated" =>
       \A p \in CartProducts(r) :
         req[r].product_map[p].stock_on_hand - SumQty(req[r].cart_items, p) >= 0

\* A cart row of this state that the step removes.
C30_RowRemoved == \E ci \in cart : \A x \in cart' : x.id # ci.id

\* C30: every cart row has a quantity of 1 or more after every step, and a
\* step that removes a cart row is a remove_item, a clear_cart or the commit
\* of a checkout.
C30_QuantityAlwaysPositive ==
  [][/\ \A ci \in cart' : ci.quantity \in Nat /\ ci.quantity >= 1
     /\ C30_RowRemoved =>
          \/ \E r \in Slots : CheckoutCommits(r)
          \/ \E u \in SeqUsers, p \in Products : RemoveItem("r1", u, p)
          \/ \E u \in SeqUsers : ClearCart("r1", u)]_vars

\* The first row ever stored was removed without a checkout; the second
\* row is in the cart with one unit.
C30_Witness ==
  /\ Cardinality(cart) = 1
  /\ \E ci \in cart : ci.id = 2 /\ ci.quantity = 1
  /\ orders = <<>>
  /\ nextCartId = 3

\* Some line of the caller's cart breaks a rule of the validation.
C31_SomeLineBad(u) ==
  \E ci \in cart : ci.user_id = u /\ ValidateLine(ci, products[ci.product_id]) # "ok"

\* C31: the checks of a checkout run in the order timing, empty cart, cart
\* lines, subtotal, and the first that fails decides the answer: a request
\* for a past date answers PastDate whether the cart is empty, invalid or
\* valid; a request with good timing and an empty cart answers EmptyCart
\* without going on to read a product; the lines are validated only after
\* both, and the subtotal guard is reached only with every line valid.
C31_FirstFailingCheckDecides ==
  [][/\ \A d \in DateOffsets :
          CheckoutBegin("r1", "u1", d, "morning", 510, <<"0", "9">>) =>
            /\ d < 0 => /\ last'.op = "checkout" /\ last'.result = "PastDate"
                        /\ req' = req
            /\ (d = 0 /\ ~ \E ci \in cart : ci.user_id = "u1") =>
                 /\ last'.op = "checkout" /\ last'.result = "EmptyCart"
                 /\ req' = req
            /\ (d = 0 /\ \E ci \in cart : ci.user_id = "u1") =>
                 /\ req'["r1"].pc = "loaded" /\ last' = last
     /\ \A r \in Slots : (req[r].pc = "loaded" /\ req'[r].pc # "loaded") =>
          IF C31_SomeLineBad(req[r].user_id)
          THEN last'.result = "CartValidationFailed" /\ req'[r].pc = "idle"
          ELSE req'[r].pc = "validated" \/ last'.result = "InvalidOrderAmount"]_vars

\* A request for a past date was answered PastDate while the cart held a
\* line that would have failed validation.
C31_Witness ==
  /\ last.op = "checkout" /\ last.result = "PastDate"
  /\ C31_SomeLineBad("u1")

\* The validation rules cart line ci breaks against the committed products,
\* each taken on its own.
C32_Broken(ci) ==
  LET product == products[ci.product_id]
  IN IF ~product.exists THEN {"ProductNotFound"}
     ELSE {"ProductInactive" : x \in {1} \cap (IF product.is_active THEN {} ELSE {1})}
          \cup {"InsufficientStock" :
                  x \in {1} \cap (IF ci.quantity > product.stock_on_hand THEN {1} ELSE {})}
          \cup {"InvalidCartPrice" :
                  x \in {1} \cap (IF ci.snapshot_price <= 0 THEN {1} ELSE {})}

C32_Precedence ==
  <<"ProductNotFound", "ProductInactive", "InsufficientStock", "InvalidCartPrice">>

\* The first reason of the precedence that line ci breaks.
C32_Reason(ci) ==
  C32_Precedence[CHOOSE i \in 1..4 :
                   /\ C32_Precedence[i] \in C32_Broken(ci)
                   /\ \A j \in 1..(i - 1) : C32_Precedence[j] \notin C32_Broken(ci)]

\* C32: in CartValidationFailed every violating line of the cart contributes
\* exactly one entry, a valid line none, the entry's reason is the first the
\* line breaks in the order ProductNotFound, ProductInactive,
\* InsufficientStock, InvalidCartPrice (a line over stock with a snapshot
\* price <= 0 reports InsufficientStock only), and there are as many entries
\* as violating lines.
C32_OneReasonPerViolatingLine ==
  (last.op = "checkout" /\ last.result = "CartValidationFailed") =>
    LET lines == ListForUser("u1")
        bad == {ci \in lines : C32_Broken(ci) # {}}
    IN /\ \A ci \in lines :
            Cardinality({e \in last.errors : e.line = ci.id})
              = IF ci \in bad THEN 1 ELSE 0
       /\ \A e \in last.errors : \E ci \in bad :
            /\ e.line = ci.id /\ e.product_id = ci.product_id
            /\ e.reason = C32_Reason(ci)
       /\ Cardinality(last.errors) = Cardinality(bad)

\* A refused checkout of a cart of two lines: one valid, the other over stock
\* with a snapshot price of 0 on an active product, reported once as
\* InsufficientStock.
C32_Witness ==
  /\ last.op = "checkout" /\ last.result = "CartValidationFailed"
  /\ Cardinality(cart) = 2
  /\ \E ci \in cart :
       /\ C32_Broken(ci) = {"InsufficientStock", "InvalidCartPrice"}
       /\ \E e \in last.errors : e.line = ci.id /\ e.reason = "InsufficientStock"
  /\ \E ci \in cart : C32_Broken(ci) = {}
  /\ Cardinality(last.errors) = 1

\* Product p exists, is active and has at least n units in stock.
C33_Fits(p, n) ==
  products[p].exists /\ products[p].is_active /\ n <= products[p].stock_on_hand

\* The quantity of the caller's cart line for product p, 0 without a line.
C33_InCart(u, p) == SumQty(ListForUser(u), p)

\* C33: a successful add_to_cart or update_quantity leaves the affected cart
\* line with a quantity (existing plus added, for add_to_cart) of at most the
\* stock_on_hand the call read; a call that would exceed it, or whose product
\* is missing or inactive, fails and leaves the cart unchanged.
C33_CartQuantityWithinStock ==
  [][/\ \A p \in Products, q \in Quantities :
          /\ AddToCartBegin("r1", "u1", p, q) =>
               IF C33_Fits(p, C33_InCart("u1", p) + q)
               THEN /\ req'["r1"].pc = "add_ready" /\ req'["r1"].product_id = p
                    /\ req'["r1"].quantity = C33_InCart("u1", p) + q
               ELSE req' = req /\ cart' = cart
          /\ UpdateQuantity("r1", "u1", p, q) =>
               IF C33_Fits(p, q) /\ C33_InCart("u1", p) > 0
               THEN /\ \E ci \in cart' : ci.user_id = "u1" /\ ci.product_id = p
                                          /\ ci.quantity = q
                    /\ \A ci \in cart' :
                         ci.product_id = p => ci.quantity <= products[p].stock_on_hand
               ELSE cart' = cart
     /\ \A r \in Slots : (req[r].pc = "add_ready" /\ req'[r].pc = "idle") =>
          LET p == req[r].product_id
          IN /\ \E ci \in cart' : /\ ci.user_id = req[r].user_id /\ ci.product_id = p
                                   /\ ci.quantity = req[r].quantity
             /\ \A ci \in cart' :
                  (ci.user_id = req[r].user_id /\ ci.product_id = p) =>
                    ci.quantity <= products[p].stock_on_hand
             /\ \A ci \in cart' : ci.product_id # p => ci \in cart]_vars

\* The line of p1 holds the whole stock of p1 beside a line of one unit of
\* p2: any further unit of p1 is over the stock.
C33_Witness ==
  /\ products["p1"].exists /\ products["p1"].is_active
  /\ products["p1"].stock_on_hand = MaxStock
  /\ C33_InCart("u1", "p1") = MaxStock
  /\ C33_InCart("u1", "p2") = 1
  /\ \A r \in Slots : req[r].pc = "idle"

\* Checkout request r has loaded a cart line that another checkout has
\* already converted and deleted.
C34_LineAlreadyConverted(r) ==
  /\ req[r].pc = "validated"
  /\ \E ci \in req[r].cart_items : \A row \in cart : row.id # ci.id

\* C34: of two concurrent checkouts of one user on the same cart at most one
\* commits: a checkout that ends after a line it loaded was converted by
\* another checkout creates no order and no item and writes no stock.
C34_CartLineConvertedOnce ==
  [][\A r \in Slots : (C34_LineAlreadyConverted(r) /\ req'[r].pc = "idle") =>
       /\ orders' = orders /\ order_items' = order_items
       /\ products' = products]_vars

\* C35: under any interleaving of concurrent update_status calls on one
\* order, every committed change of its status is an edge of the transition
\* table from the status committed before: canceled is never followed by
\* confirmed, and confirmed is never written over canceled.
C35_CommittedHistoryFollowsTable ==
  [][\A o \in DOMAIN orders :
       orders'[o].status # orders[o].status
         => orders'[o].status \in Allowed[orders[o].status]]_vars

\* C36: over the lifetime of an order at most one confirmation dispatch is
\* attempted, whatever update_status calls run on it and however they
\* interleave.
C36_AtMostOneDispatchPerOrder == \A o \in OrderIds : emails[o] <= 1

\* C37: a stock update that an admin commits while a checkout is between its
\* validation and its commit is not lost: the commit of the checkout leaves
\* every product of its cart with the stock committed just before it (the
\* admin's value) minus the quantity checked out.
C37_AdminStockUpdateNotLost ==
  [][\A r \in Slots : CheckoutCommits(r) =>
       \A p \in CartProducts(r) :
         products'[p].stock_on_hand
           = products[p].stock_on_hand - SumQty(req[r].cart_items, p)]_vars

\* The view get_user_order / get_order_admin build of committed order o.
C38_View(o) ==
  BuildOrderWithItemsDto(orders[o], {it \in order_items : it.order_id = o})

C39_CheckoutStepOf(u) ==
  \E r \in Slots :
    \/ req[r].op = "checkout" /\ req[r].user_id = u /\ req'[r].pc # req[r].pc
    \/ req[r].pc = "idle" /\ req'[r].op = "checkout" /\ req'[r].user_id = u

\* C39: a checkout of one user, whether it succeeds or fails, leaves the cart
\* lines of every other user, every committed order and every committed
\* order item as they are; the cart lines it deletes are the caller's, and
\* the order and items it adds are the caller's.  A checkout refused at once
\* changes nothing at all.
C39_CheckoutTouchesOnlyCaller ==
  [][/\ \A u \in Users : C39_CheckoutStepOf(u) =>
          /\ \A ci \in cart : ci.user_id # u => ci \in cart'
          /\ cart' \subseteq cart
          /\ \A o \in DOMAIN orders : o \in DOMAIN orders' /\ orders'[o] = orders[o]
          /\ \A o \in DOMAIN orders' : o \notin DOMAIN orders => orders'[o].user_id = u
          /\ order_items \subseteq order_items'
          /\ \A it \in order_items' \ order_items : it.order_id \notin DOMAIN orders
     /\ (last'.op = "checkout" /\ req' = req) => UNCHANGED db]_vars

\* A checkout of u1 has just committed: the cart of u1 is cleared and the
\* cart line of u2 is still there.
C39_Witness ==
  /\ last.op = "checkout" /\ last.result = "ok"
  /\ orders[last.order_id].user_id = "u1"
  /\ \E ci \in cart : ci.user_id = "u2"
  /\ \A ci \in cart : ci.user_id # "u1"

====
